---- MODULE Spec2Model ----
(***************************************************************************)
(* Model of src/Paginas/premissas.py: simular_emprestimo (tax calendar,    *)
(* cash-flow builder, grid/bracket root search, report table) and the      *)
(* "Visao Cliente" recovery simulation of app().                           *)
(*                                                                         *)
(* Money is exact rational arithmetic held in integers:                    *)
(*   - gross flows and payments are integers in "units" (1/UnitsPerCent of *)
(*     a cent);                                                            *)
(*   - the IRPJ, CSSL and surtax rates and the base factors are integers   *)
(*     in percent; the PIS and COFINS rates are integers in basis points   *)
(*     (0.65% is 65);                                                      *)
(*   - tax bases are held times 100 (units * percent);                     *)
(*   - costs and net flows are held times 10000.                           *)
(* The target rate is 0 throughout, where the present value of a flow is   *)
(* the flow itself and the theoretical payment is principal / count.       *)
(***************************************************************************)
EXTENDS Integers, Sequences, FiniteSets

VARIABLES
    pc,                        \* position in simular_emprestimo / app
    tipo_operacao,             \* the string handed to simular_emprestimo
    num_parcelas,
    valor_emprestado,
    inflacao_anual,            \* whole number: payment is multiplied by (1 + inflacao_anual)
    aliquota_pis, aliquota_cofins,       \* basis points
    aliquota_irpj, aliquota_cssl,        \* percent
    limite_isencao_irpj,                 \* units
    aliquota_adicional_irpj,             \* percent
    pmt_min, pmt_max,          \* None or << payment >>
    n_points,
    impostos_meses,            \* list of recognition months
    m,                         \* loop variable of the "compra" search
    extra_index,
    pmt_grid, f_vals,          \* the grid and the sign of the objective on it
    i, raizes,                 \* the bracket loop: index and the roots found
    pmt_otimizada,
    fluxo_bruta, fluxo_liquida, custos,   \* the schedule built at pmt_otimizada
    df_fluxos,                 \* the report table
    df_parcelas_recuperacao,   \* the table of the "Visao Cliente" tab
    erro                       \* the exception raised, "" when none

\* the arguments of simular_emprestimo that are never rebound
entradas == << tipo_operacao, num_parcelas, valor_emprestado, inflacao_anual,
               aliquota_pis, aliquota_cofins, aliquota_irpj, aliquota_cssl,
               limite_isencao_irpj, aliquota_adicional_irpj, n_points >>

calendario == << impostos_meses, m, extra_index >>
busca == << pmt_min, pmt_max, pmt_grid, f_vals, i, raizes, pmt_otimizada >>
fluxos == << fluxo_bruta, fluxo_liquida, custos >>
tabelas == << df_fluxos, df_parcelas_recuperacao >>

vars == << pc, entradas, calendario, busca, fluxos, tabelas, erro >>

\* ------------------------------------------------------------------ bounds
MaxParcelasCal == 29

\* The strings a caller can hand in: the selectbox values of app(), their
\* lower-case forms, and one value outside the closed set.
TipoOperacaoValues == {"Aluguel", "Compra", "aluguel", "compra", "venda"}

\* str.lower() on the values above
LowerSemConversao(s) == s
Lower(s) ==
    CASE s = "Aluguel" -> "aluguel"
      [] s = "Compra"  -> "compra"
      [] OTHER         -> s

\* pmt_min and pmt_max hold None, or << x >> for the float x
None == << >>

\* the operation type as simular_emprestimo reads it
EhCompra == Lower(tipo_operacao) = "compra"
EhAluguel == Lower(tipo_operacao) = "aluguel"

\* Python range(a, b) as a sequence
Range(a, b) == [k \in 1..(IF b > a THEN b - a ELSE 0) |-> a + k - 1]

\* the test of a recognition month: (mes - 1) % 3 == 0
Trimestre(mes) == (mes - 1) % 3 = 0

\* impostos_meses = [mes for mes in range(4, num_parcelas + 1) if (mes - 1) % 3 == 0]
ImpostosMesesDesdeUm(n) == SelectSeq(Range(1, n + 1), Trimestre)
ImpostosMeses(n) == SelectSeq(Range(4, n + 1), Trimestre)

\* the exit test of the "compra" while loop: m >= 4 and (m - 1) % 3 == 0
ExtraAlinhadoSemDeslocamento(mm) == mm >= 4 /\ mm % 3 = 0
ExtraAlinhado(mm) == mm >= 4 /\ Trimestre(mm)

\* extra_index of the "aluguel" branch
ExtraAluguelAlinhado(n) ==
    CHOOSE mm \in (n + 1)..(n + 4) :
        /\ ExtraAlinhado(mm)
        /\ \A k \in (n + 1)..(mm - 1) : ~ExtraAlinhado(k)
ExtraAluguel(n) == n + 1

\* ------------------------------------------------------------- calendar
\* lines 50-63: the recognition months, then the branch on the operation type
DeterminarPeriodos ==
    /\ pc = "inicio"
    /\ impostos_meses' = ImpostosMeses(num_parcelas)
    /\ IF Lower(tipo_operacao) = "compra"
         THEN /\ m' = num_parcelas + 1
              /\ pc' = "laco_extra"
              /\ UNCHANGED << extra_index, erro >>
         ELSE IF Lower(tipo_operacao) = "aluguel"
         THEN /\ extra_index' = ExtraAluguel(num_parcelas)
              /\ pc' = "pmt"
              /\ UNCHANGED << m, erro >>
         ELSE /\ erro' = "ValueError: tipo de operacao invalido"
              /\ pc' = "erro"
              /\ UNCHANGED << m, extra_index >>
    /\ UNCHANGED << entradas, busca, fluxos, tabelas >>

\* lines 55-59: one iteration of "while True"
BuscarExtraIndex ==
    /\ pc = "laco_extra"
    /\ IF ExtraAlinhado(m)
         THEN /\ extra_index' = m
              /\ pc' = "pmt"
              /\ UNCHANGED m
         ELSE /\ m' = m + 1
              /\ UNCHANGED << extra_index, pc >>
    /\ UNCHANGED << entradas, busca, fluxos, tabelas, impostos_meses, erro >>

\* ---------------------------------------------------- cash-flow builder
Min2(a, b) == IF a <= b THEN a ELSE b
Max2(a, b) == IF a >= b THEN a ELSE b

\* sum of f[a], ..., f[b]
RECURSIVE Soma(_, _, _)
Soma(f, a, b) == IF a > b THEN 0 ELSE f[a] + Soma(f, a + 1, b)

\* sum(lista[a:b]) of a Python list indexed 0..extra_index, for a >= 0
SomaFatia(f, a, b) == Soma(f, a, Min2(b - 1, extra_index))

\* sum(df.loc[a:b, coluna]): label slicing, both ends included
SomaLoc(f, a, b) == Soma(f, Max2(a, 0), Min2(b, extra_index))

\* mes in impostos_meses
EmImpostosMeses(mes) == \E k \in 1..Len(impostos_meses) : impostos_meses[k] = mes

\* max(impostos_meses) of a non-empty list
MaxImpostosMeses ==
    CHOOSE x \in { impostos_meses[k] : k \in 1..Len(impostos_meses) } :
        \A k \in 1..Len(impostos_meses) : impostos_meses[k] <= x

\* lines 89-93: the payment of month mes, escalated at months 13, 25, ...
RECURSIVE PmtAtualNoMesDoze(_, _)
PmtAtualNoMesDoze(pmt_bruta, mes) ==
    IF mes <= 1 THEN pmt_bruta
    ELSE IF mes % 12 = 0
         THEN PmtAtualNoMesDoze(pmt_bruta, mes - 1) * (1 + inflacao_anual)
         ELSE PmtAtualNoMesDoze(pmt_bruta, mes - 1)

RECURSIVE PmtAtual(_, _)
PmtAtual(pmt_bruta, mes) ==
    IF mes <= 1 THEN pmt_bruta
    ELSE IF (mes - 1) % 12 = 0
         THEN PmtAtual(pmt_bruta, mes - 1) * (1 + inflacao_anual)
         ELSE PmtAtual(pmt_bruta, mes - 1)

\* fluxo_bruta as the builder leaves it (lines 74, 86, 93, 151, 188), in units
FluxoBruta(pmt_bruta) ==
    [mes \in 0..extra_index |->
        IF mes = extra_index THEN 0
        ELSE IF mes = 0 THEN -valor_emprestado
        ELSE IF mes <= num_parcelas THEN PmtAtual(pmt_bruta, mes)
        ELSE 0]

\* lines 101-125: the base factors of month mes, in percent
FatorIrpjUltimoTributavel(mes) ==
    IF EmImpostosMeses(mes)
      THEN IF EhAluguel THEN 32
           ELSE (IF mes = MaxImpostosMeses THEN 8 ELSE 32)
      ELSE 0

FatorIrpj(mes) ==
    IF EhAluguel
      THEN IF EmImpostosMeses(mes)
             THEN (IF mes = MaxImpostosMeses THEN 32 ELSE 32)
             ELSE 0
      ELSE IF EmImpostosMeses(mes)
             THEN (IF mes < num_parcelas THEN 32 ELSE 8)
             ELSE 0

FatorCssl(mes) ==
    IF EhAluguel
      THEN IF EmImpostosMeses(mes)
             THEN (IF mes = MaxImpostosMeses THEN 32 ELSE 32)
             ELSE 0
      ELSE IF EmImpostosMeses(mes)
             THEN (IF mes < num_parcelas THEN 32 ELSE 12)
             ELSE 0

\* lines 128, 130: the bases of a recognition month, times 100
BaseCssl(bruta, mes) == SomaFatia(bruta, mes - 3, mes) * FatorCssl(mes)
BaseIrpj(bruta, mes) == SomaFatia(bruta, mes - 3, mes) * FatorIrpj(mes)

\* lines 131-134 (and 167-170, 177-180): the surtax base, times 100
BaseAdicionalSemPiso(base) == base - limite_isencao_irpj * 100
BaseAdicional(base) ==
    IF base >= limite_isencao_irpj * 100
      THEN base - limite_isencao_irpj * 100
      ELSE 0

\* lines 129, 135: the costs, times 10000
CustoCssl(base) == -(base * aliquota_cssl)
CustoIrpj(base) == -(base * aliquota_irpj + BaseAdicional(base) * aliquota_adicional_irpj)

\* lines 161-186: the bases of the extra flow, times 100
BaseCsslFinalUltimasParcelas(bruta) ==
    IF num_parcelas >= 3
      THEN Soma(bruta, num_parcelas - 2, num_parcelas) * (IF EhAluguel THEN 32 ELSE 12)
      ELSE 0

BaseCsslFinal(bruta) ==
    IF num_parcelas >= 3
      THEN IF EhAluguel
             THEN SomaFatia(bruta, extra_index - 3, extra_index) * 32
             ELSE SomaFatia(bruta, extra_index - 3, extra_index) * 12
      ELSE 0

BaseIrpjFinalNovosFatores(bruta) ==
    IF num_parcelas >= 3
      THEN SomaFatia(bruta, extra_index - 3, extra_index) * 8
      ELSE 0

BaseIrpjFinal(bruta) ==
    IF num_parcelas >= 3
      THEN IF EhAluguel
             THEN SomaFatia(bruta, extra_index - 3, extra_index) * 32
             ELSE SomaFatia(bruta, extra_index - 3, extra_index) * 8
      ELSE 0

\* lines 95-96: the PIS and COFINS costs of an installment, times 10000
CustoPis(pmt_atual) == -(pmt_atual * aliquota_pis)
CustoCofinsComAliquotaPis(pmt_atual) == -(pmt_atual * aliquota_pis)
CustoCofins(pmt_atual) == -(pmt_atual * aliquota_cofins)

\* lines 72-207: fluxo_bruta (units), fluxo_liquida and the costs (times 10000),
\* the IRPJ bases (times 100), each indexed 0..extra_index
CalcularFluxosComImpostos(pmt_bruta) ==
    LET bruta == FluxoBruta(pmt_bruta)
        meses == 0..extra_index
        parcela(mes) == mes >= 1 /\ mes <= num_parcelas
        tributavel(mes) == parcela(mes) /\ EmImpostosMeses(mes)
        pis == [mes \in meses |->
                  IF mes # extra_index /\ parcela(mes)
                    THEN CustoPis(bruta[mes]) ELSE 0]
        cofins == [mes \in meses |->
                  IF mes # extra_index /\ parcela(mes)
                    THEN CustoCofins(bruta[mes]) ELSE 0]
        cssl == [mes \in meses |->
                  IF mes = extra_index THEN CustoCssl(BaseCsslFinal(bruta))
                  ELSE IF tributavel(mes) THEN CustoCssl(BaseCssl(bruta, mes))
                  ELSE 0]
        base_irpj == [mes \in meses |->
                  IF mes = extra_index THEN BaseIrpjFinal(bruta)
                  ELSE IF tributavel(mes) THEN BaseIrpj(bruta, mes)
                  ELSE 0]
        irpj == [mes \in meses |->
                  IF mes = extra_index \/ tributavel(mes)
                    THEN CustoIrpj(base_irpj[mes]) ELSE 0]
        liquida == [mes \in meses |->
                  IF mes = extra_index THEN cssl[mes] + irpj[mes]
                  ELSE IF mes = 0 THEN -valor_emprestado * 10000
                  ELSE IF parcela(mes)
                    THEN bruta[mes] * 10000 + pis[mes] + cofins[mes] + cssl[mes] + irpj[mes]
                  ELSE 0]
    IN  [ fluxo_bruta |-> bruta,
          fluxo_liquida |-> liquida,
          custos |-> [ PIS |-> pis, COFINS |-> cofins, CSSL |-> cssl, IRPJ |-> irpj,
                       Base_IRPJ |-> base_irpj,
                       Base_Adicional_IRPJ |->
                           [mes \in meses |-> BaseAdicional(base_irpj[mes])] ] ]

\* ------------------------------------------------------------ root search
Sinal(x) == IF x > 0 THEN 1 ELSE IF x < 0 THEN -1 ELSE 0

\* npf.irr has no rate to return (nan) when the flows never change sign
IrrNaN(fl) ==
    \/ \A t \in DOMAIN fl : fl[t] >= 0
    \/ \A t \in DOMAIN fl : fl[t] <= 0

\* the target rate handed to simular_emprestimo
tir_desejada == 0

\* lines 209-214, for the target rate 0 the model fixes: the sign of the
\* objective.  nan gives -1 - tir_desejada, which is negative; otherwise the
\* net IRR is above, at or below 0 as the plain sum of the net flows (their
\* present value at rate 0) is positive, zero or negative.
FuncaoGoalSeekImpostosNanComoZero(pmt_bruta) ==
    LET liq == CalcularFluxosComImpostos(pmt_bruta).fluxo_liquida
    IN  IF IrrNaN(liq) THEN 0 - tir_desejada ELSE Sinal(Soma(liq, 0, extra_index))

FuncaoGoalSeekImpostos(pmt_bruta) ==
    LET liq == CalcularFluxosComImpostos(pmt_bruta).fluxo_liquida
    IN  IF IrrNaN(liq) THEN -1 - tir_desejada ELSE Sinal(Soma(liq, 0, extra_index))

\* line 66: abs(npf.pmt(0, num_parcelas, valor_emprestado))
PmtTeoricaSemPrazo == valor_emprestado
PmtTeorica == valor_emprestado \div num_parcelas

\* np.linspace(a, b, np), on inputs for which the points are whole units
Linspace(a, b, np) ==
    [k \in 1..np |-> IF np = 1 THEN a ELSE a + ((k - 1) * (b - a)) \div (np - 1)]

\* root_scalar(..., bracket=[a, b], method="brentq"): an end of the bracket
\* where the objective is zero; otherwise the crossing lies in the open
\* bracket, and the root is a payment strictly inside it at which the
\* objective is zero or changes sign against a neighbour one unit away (the
\* brackets of the model are at least two units wide, and far wider than the
\* solver's tolerance)
Brentq(a, b) ==
    IF FuncaoGoalSeekImpostos(a) = 0 THEN {a}
    ELSE IF FuncaoGoalSeekImpostos(b) = 0 THEN {b}
    ELSE { x \in (Min2(a, b) + 1)..(Max2(a, b) - 1) :
             \/ FuncaoGoalSeekImpostos(x) = 0
             \/ FuncaoGoalSeekImpostos(x) * FuncaoGoalSeekImpostos(x + 1) < 0
             \/ FuncaoGoalSeekImpostos(x - 1) * FuncaoGoalSeekImpostos(x) < 0 }

\* max(raizes) of a non-empty list
UltimaRaiz(rs) == rs[Len(rs)]
MaxRaizes(rs) ==
    CHOOSE x \in { rs[k] : k \in 1..Len(rs) } : \A k \in 1..Len(rs) : rs[k] <= x

\* lines 65-70, 217-218: the default range, the grid and the objective on it
GridSearch ==
    /\ pc = "pmt"
    /\ pmt_min' = (IF pmt_min = None THEN << PmtTeorica >> ELSE pmt_min)
    /\ pmt_max' = (IF pmt_max = None THEN << PmtTeorica * 2 >> ELSE pmt_max)
    /\ pmt_grid' = Linspace(pmt_min'[1], pmt_max'[1], n_points)
    /\ f_vals' = [k \in 1..n_points |-> FuncaoGoalSeekImpostos(pmt_grid'[k])]
    /\ i' = 0
    /\ raizes' = << >>
    /\ pc' = "brackets"
    /\ UNCHANGED << entradas, calendario, pmt_otimizada, fluxos, tabelas, erro >>

\* line 222 with "<= 0" in place of "< 0"
RefinarBracketProdutoNaoPositivo ==
    /\ pc = "brackets"
    /\ i < Len(pmt_grid) - 1
    /\ IF f_vals[i + 1] * f_vals[i + 2] <= 0
         THEN \/ \E sol \in Brentq(pmt_grid[i + 1], pmt_grid[i + 2]) :
                    raizes' = Append(raizes, sol)
              \/ UNCHANGED raizes
         ELSE UNCHANGED raizes
    /\ i' = i + 1
    /\ UNCHANGED << pc, entradas, calendario, pmt_min, pmt_max, pmt_grid, f_vals,
                    pmt_otimizada, fluxos, tabelas, erro >>

\* lines 221-229: one iteration of the loop over adjacent grid points
\* (i is the Python index; the lists of the model are indexed from 1).  A
\* refinement that does not converge, or that raises, adds no root (lines
\* 226, 228-229).
RefinarBracket ==
    /\ pc = "brackets"
    /\ i < Len(pmt_grid) - 1
    /\ IF f_vals[i + 1] * f_vals[i + 2] < 0
         THEN \/ \E sol \in Brentq(pmt_grid[i + 1], pmt_grid[i + 2]) :
                    raizes' = Append(raizes, sol)
              \/ UNCHANGED raizes
         ELSE UNCHANGED raizes
    /\ i' = i + 1
    /\ UNCHANGED << pc, entradas, calendario, pmt_min, pmt_max, pmt_grid, f_vals,
                    pmt_otimizada, fluxos, tabelas, erro >>

\* lines 231-234
SelecionarPmtComPadrao ==
    /\ pc = "brackets"
    /\ i >= Len(pmt_grid) - 1
    /\ pmt_otimizada' = (IF raizes # << >> THEN MaxRaizes(raizes) ELSE pmt_min[1])
    /\ pc' = "fluxo_final"
    /\ UNCHANGED << entradas, calendario, pmt_min, pmt_max, pmt_grid, f_vals,
                    i, raizes, fluxos, tabelas, erro >>

SelecionarPmt ==
    /\ pc = "brackets"
    /\ i >= Len(pmt_grid) - 1
    /\ IF raizes # << >>
         THEN /\ pmt_otimizada' = MaxRaizes(raizes)
              /\ pc' = "fluxo_final"
              /\ UNCHANGED erro
         ELSE /\ erro' = "ValueError: nenhuma solucao"
              /\ pc' = "erro"
              /\ UNCHANGED pmt_otimizada
    /\ UNCHANGED << entradas, calendario, pmt_min, pmt_max, pmt_grid, f_vals,
                    i, raizes, fluxos, tabelas >>

\* lines 236-237: the schedule at the selected payment
FluxoFinal ==
    /\ pc = "fluxo_final"
    /\ LET r == CalcularFluxosComImpostos(pmt_otimizada)
       IN  /\ fluxo_bruta' = r.fluxo_bruta
           /\ fluxo_liquida' = r.fluxo_liquida
           /\ custos' = r.custos
    /\ pc' = "dataframe"
    /\ UNCHANGED << entradas, calendario, busca, tabelas, erro >>

\* -------------------------------------------------------- report table
\* lines 261-283: the base factors of the report's loop, in percent
FatorCsslRelatorio(mes) ==
    IF EhAluguel
      THEN (IF mes = MaxImpostosMeses THEN 32 ELSE 32)
      ELSE (IF mes = MaxImpostosMeses THEN 12 ELSE 32)

FatorIrpjRelatorio(mes) ==
    IF EhAluguel
      THEN (IF mes = MaxImpostosMeses THEN 32 ELSE 32)
      ELSE (IF mes = MaxImpostosMeses THEN 8 ELSE 32)

\* lines 300-311: the bases of the report's extra row, times 100
BaseCsslFinalRelatorio(bruta) ==
    SomaLoc(bruta, extra_index - 3, extra_index) * (IF EhAluguel THEN 32 ELSE 12)

BaseIrpjFinalRelatorio(bruta) ==
    SomaLoc(bruta, extra_index - 3, extra_index) * (IF EhAluguel THEN 32 ELSE 8)

\* lines 240-325: df_fluxos, one function of the month per column; the flows
\* as the builder returned them, the tax columns recomputed from the gross
\* column.  Reached only with impostos_meses non-empty.
DfFluxos ==
    LET meses == 0..extra_index
        extra(mes) == mes = extra_index /\ extra_index > MaxImpostosMeses
        base_cssl == [mes \in meses |->
            IF extra(mes) THEN BaseCsslFinalRelatorio(fluxo_bruta)
            ELSE IF EmImpostosMeses(mes)
              THEN SomaLoc(fluxo_bruta, mes - 3, mes - 1) * FatorCsslRelatorio(mes)
            ELSE 0]
        base_irpj == [mes \in meses |->
            IF extra(mes) THEN BaseIrpjFinalRelatorio(fluxo_bruta)
            ELSE IF EmImpostosMeses(mes)
              THEN SomaLoc(fluxo_bruta, mes - 3, mes - 1) * FatorIrpjRelatorio(mes)
            ELSE 0]
        base_adicional == [mes \in meses |->
            IF extra(mes) \/ EmImpostosMeses(mes)
              THEN BaseAdicional(base_irpj[mes]) ELSE 0]
        irpj_adicional == [mes \in meses |->
            -(base_adicional[mes] * aliquota_adicional_irpj)]
    IN  [ Mes |-> [mes \in meses |-> mes],
          Bruta |-> fluxo_bruta,
          Liquida |-> fluxo_liquida,
          PIS |-> [mes \in meses |->
                    IF fluxo_bruta[mes] > 0
                      THEN -(fluxo_bruta[mes] * aliquota_pis) ELSE 0],
          COFINS |-> [mes \in meses |->
                    IF fluxo_bruta[mes] > 0
                      THEN -(fluxo_bruta[mes] * aliquota_cofins) ELSE 0],
          Base_CSSL |-> base_cssl,
          CSSL |-> [mes \in meses |-> -(base_cssl[mes] * aliquota_cssl)],
          Base_IRPJ |-> base_irpj,
          Base_Adicional_IRPJ |-> base_adicional,
          IRPJ |-> [mes \in meses |->
                    -(base_irpj[mes] * aliquota_irpj) + irpj_adicional[mes]],
          IRPJ_Adicional |-> irpj_adicional ]

\* lines 239-327: the report; max(impostos_meses) of line 299 raises on an
\* empty list (the loop of line 259 does not run then and reaches it)
MontarDataFrame ==
    /\ pc = "dataframe"
    /\ IF impostos_meses = << >>
         THEN /\ erro' = "ValueError: max() arg is an empty sequence"
              /\ pc' = "erro"
              /\ UNCHANGED df_fluxos
         ELSE /\ df_fluxos' = DfFluxos
              /\ pc' = "retorno"
              /\ UNCHANGED erro
    /\ UNCHANGED << entradas, calendario, busca, fluxos, df_parcelas_recuperacao >>

\* ------------------------------------------------------------------ app()
\* units in one cent
UnitsPerCent == 2

\* line 645
RecuperacaoIrpj == 34

\* -(-a // b) for b > 0: the quotient rounded up
CeilDiv(a, b) == -((-a) \div b)

\* lines 10-16: a number is rounded up to the cent and written out as text;
\* the text is held as its whole number of cents.  escala is what the number
\* is held times (1, 100 or 10000).
FormatarBrasileiro(valor, escala) == [centavos |-> CeilDiv(valor, escala * UnitsPerCent)]

\* line 659: the text read back as a float, in units
ParaFloat(texto) == texto.centavos * UnitsPerCent

\* line 651: texto != 0, on the column that lines 580-582 have already
\* overwritten with text: a str never equals the number 0, whatever it spells
DiferenteDeZeroNumerico(texto) == texto.centavos # 0
DiferenteDeZero(texto) == TRUE

\* lines 580-582: every column but "Mes" is overwritten with its text
FormatarDfFluxos ==
    /\ pc = "retorno"
    /\ LET col(c, escala) == [mes \in 0..extra_index |->
                                 FormatarBrasileiro(df_fluxos[c][mes], escala)]
       IN df_fluxos' =
            [ Mes |-> df_fluxos.Mes,
              Bruta |-> col("Bruta", 1),
              Liquida |-> col("Liquida", 10000),
              PIS |-> col("PIS", 10000),
              COFINS |-> col("COFINS", 10000),
              Base_CSSL |-> col("Base_CSSL", 100),
              CSSL |-> col("CSSL", 10000),
              Base_IRPJ |-> col("Base_IRPJ", 100),
              Base_Adicional_IRPJ |-> col("Base_Adicional_IRPJ", 100),
              IRPJ |-> col("IRPJ", 10000),
              IRPJ_Adicional |-> col("IRPJ_Adicional", 10000) ]
    /\ pc' = "tab2"
    /\ UNCHANGED << entradas, calendario, busca, fluxos, df_parcelas_recuperacao, erro >>

\* whether the row of month mes gets no recovery (lines 682-685, 697)
SemRecuperacao(mes, max_mes) == tipo_operacao = "compra" /\ mes >= max_mes - 3

\* lines 645-731: the rows kept, the installment (Parcela, in units, negative),
\* the recovery (times 100), the factor of the period-0 sum (percent) and the
\* net recovery (times 100).  The balance columns, compounded at cdi, are not
\* part of the model.
VisaoCliente ==
    /\ pc = "tab2"
    /\ LET linhas == { mes \in 0..extra_index : DiferenteDeZero(df_fluxos.Bruta[mes]) }
           max_mes == CHOOSE x \in linhas : \A y \in linhas : y <= x
           bruta == [mes \in linhas |->
                        IF mes = 0 THEN 0 ELSE ParaFloat(df_fluxos.Bruta[mes])]
           parcela == [mes \in linhas |-> -bruta[mes]]
           rec == [mes \in linhas |->
                        IF SemRecuperacao(mes, max_mes)
                          THEN 0 ELSE -parcela[mes] * RecuperacaoIrpj]
       IN df_parcelas_recuperacao' =
            [ Mes |-> [mes \in linhas |-> mes],
              Parcela |-> parcela,
              Recuperacao_IR |-> rec,
              Fator |-> [mes \in linhas \ {0} |->
                            IF SemRecuperacao(mes, max_mes)
                              THEN 100 ELSE 100 - RecuperacaoIrpj],
              Rec_Liquida |-> [mes \in linhas |->
                            IF mes = 0 THEN valor_emprestado * 100
                            ELSE parcela[mes] * 100 + rec[mes]] ]
    /\ pc' = "fim"
    /\ UNCHANGED << entradas, calendario, busca, fluxos, df_fluxos, erro >>

\* what is not yet assigned when simular_emprestimo is entered
NadaCalculado ==
    /\ impostos_meses = << >>
    /\ m = 0
    /\ extra_index = 0
    /\ pmt_grid = << >> /\ f_vals = << >>
    /\ i = 0 /\ raizes = << >>
    /\ pmt_otimizada = 0
    /\ fluxo_bruta = << >> /\ fluxo_liquida = << >> /\ custos = << >>
    /\ df_fluxos = << >> /\ df_parcelas_recuperacao = << >>
    /\ erro = ""

\* The calendar alone, for every installment count up to MaxParcelasCal.
InitCal ==
    /\ pc = "inicio"
    /\ tipo_operacao \in TipoOperacaoValues
    /\ num_parcelas \in 1..MaxParcelasCal
    /\ valor_emprestado = num_parcelas
    /\ inflacao_anual = 0
    /\ aliquota_pis = 0 /\ aliquota_cofins = 0
    /\ aliquota_irpj = 0 /\ aliquota_cssl = 0
    /\ limite_isencao_irpj = 0 /\ aliquota_adicional_irpj = 0
    /\ pmt_min = None /\ pmt_max = None /\ n_points = 1
    /\ NadaCalculado

NextCal == DeterminarPeriodos \/ BuscarExtraIndex

SpecCal == InitCal /\ [][NextCal]_vars

\* ----------------------------------------------------- the whole request
\* bounds of the inputs drawn
MaxParcelas == 14

\* the theoretical payments drawn (valor_emprestado = num_parcelas times one
\* of them, so that the payment at rate 0 is a whole number of units, and a
\* multiple of 4 so that the grids of 5 points are whole too)
PmtTeoricaValues == {44, 80}

\* the same for the page, where the default grid of 101 points over
\* [pmt, 2 * pmt] needs pmt to be a multiple of 100 units, and of 200 for
\* its brackets to be two units wide
PmtTeoricaValuesApp == {200, 400}

Init ==
    /\ pc = "inicio"
    /\ tipo_operacao \in TipoOperacaoValues
    /\ num_parcelas \in 1..MaxParcelas
    /\ valor_emprestado \in { num_parcelas * k : k \in PmtTeoricaValues }
    /\ inflacao_anual \in {0, 1}
    /\ aliquota_pis = 65 /\ aliquota_cofins = 300
    /\ aliquota_irpj = 15 /\ aliquota_cssl = 9
    /\ limite_isencao_irpj \in {48, 600}
    /\ aliquota_adicional_irpj \in {10, 400}
    /\ \/ pmt_min = None /\ pmt_max = None
       \/ /\ pmt_min = << 2 * (valor_emprestado \div num_parcelas) >>
          /\ pmt_max = << valor_emprestado \div num_parcelas >>
       \/ /\ pmt_min = << valor_emprestado \div num_parcelas >>
          /\ pmt_max = << valor_emprestado \div num_parcelas >>
       \/ pmt_min = << 0 >> /\ pmt_max = None
       \/ pmt_min = None /\ pmt_max = << 3 * (valor_emprestado \div num_parcelas) >>
    /\ n_points \in {1, 5}
    /\ NadaCalculado

Next ==
    \/ DeterminarPeriodos
    \/ BuscarExtraIndex
    \/ GridSearch
    \/ RefinarBracket
    \/ SelecionarPmt
    \/ FluxoFinal
    \/ MontarDataFrame

Spec == Init /\ [][Next]_vars

\* The request with PIS and COFINS at zero: with 1 or 2 installments nothing
\* is taxed, and the theoretical payment, a grid point of every range drawn,
\* meets the target rate exactly.
InitSemPisCofins ==
    /\ pc = "inicio"
    /\ tipo_operacao \in {"aluguel", "compra"}
    /\ num_parcelas \in 1..MaxParcelas
    /\ valor_emprestado \in { num_parcelas * k : k \in PmtTeoricaValues }
    /\ inflacao_anual = 0
    /\ aliquota_pis = 0 /\ aliquota_cofins = 0
    /\ aliquota_irpj = 15 /\ aliquota_cssl = 9
    /\ limite_isencao_irpj = 600
    /\ aliquota_adicional_irpj = 10
    /\ \/ pmt_min = None /\ pmt_max = None
       \/ /\ pmt_min = << 2 * (valor_emprestado \div num_parcelas) >>
          /\ pmt_max = << valor_emprestado \div num_parcelas >>
       \/ /\ pmt_min = << valor_emprestado \div num_parcelas >>
          /\ pmt_max = << valor_emprestado \div num_parcelas >>
       \/ pmt_min = << 0 >> /\ pmt_max = None
       \/ pmt_min = None /\ pmt_max = << 3 * (valor_emprestado \div num_parcelas) >>
    /\ n_points \in {1, 5}
    /\ NadaCalculado

SpecSemPisCofins == InitSemPisCofins /\ [][Next]_vars

\* line 21: the default of n_points
NPointsPadrao == 101

\* app(): the request as the page makes it (lines 333-397).  The operation
\* type and the installment count come from the selectboxes (the first count
\* of each list), the rates and the exemption limit of 60000.00 are the ones
\* the page passes, the search range and the grid are the defaults.
InitApp ==
    /\ pc = "inicio"
    /\ tipo_operacao \in {"Aluguel", "Compra"}
    /\ num_parcelas = (IF tipo_operacao = "Aluguel" THEN 24 ELSE 28)
    /\ valor_emprestado \in { num_parcelas * k : k \in PmtTeoricaValuesApp }
    /\ inflacao_anual \in {0, 1}
    /\ aliquota_pis = 65 /\ aliquota_cofins = 300
    /\ aliquota_irpj = 15 /\ aliquota_cssl = 9
    /\ limite_isencao_irpj = 60000 * 100 * UnitsPerCent
    /\ aliquota_adicional_irpj = 10
    /\ pmt_min = None /\ pmt_max = None
    /\ n_points = NPointsPadrao
    /\ NadaCalculado

NextApp ==
    \/ Next
    \/ FormatarDfFluxos
    \/ VisaoCliente

SpecApp == InitApp /\ [][NextApp]_vars

\* ------------------------------------------------- calendar properties

\* C3 (as stated): once the calendar is computed, for both operation types,
\* extra_index is recognition-eligible (>= 4 and (extra_index - 1) mod 3 = 0)
\* and strictly greater than num_parcelas.
C3_ExtraSempreElegivel ==
    pc = "pmt" =>
        /\ extra_index >= 4
        /\ (extra_index - 1) % 3 = 0
        /\ extra_index > num_parcelas

C7_MesesDeReconhecimento ==
    pc # "inicio" =>
        /\ { impostos_meses[k] : k \in 1..Len(impostos_meses) }
             = { p \in 4..num_parcelas : (p - 1) % 3 = 0 }
        /\ Len(impostos_meses) > 0 => impostos_meses[1] = 4
        /\ \A k \in 1..(Len(impostos_meses) - 1) :
               impostos_meses[k + 1] = impostos_meses[k] + 3
        /\ num_parcelas < 4 => impostos_meses = << >>
        /\ pc = "pmt" =>
               \A k \in 1..Len(impostos_meses) : impostos_meses[k] # extra_index

C7_Witness ==
    /\ pc = "pmt" /\ num_parcelas = 13
    /\ impostos_meses = << 4, 7, 10, 13 >>


\* ---------------------------------------------------- builder properties
\* the schedule at the selected payment has been built
FluxoConstruido == pc \in {"dataframe", "retorno", "tab2", "fim"} \/ (pc = "erro" /\ raizes # << >>)

\* the three gross flows before month mes
TresAnteriores(mes) == fluxo_bruta[mes - 3] + fluxo_bruta[mes - 2] + fluxo_bruta[mes - 1]

\* C8: for "compra" the builder takes 32% of the three preceding gross flows
\* as CSSL and IRPJ base at every recognition month before num_parcelas, and
\* 12% (CSSL) and 8% (IRPJ) at a recognition month equal to num_parcelas;
\* months that are not recognition months carry zero CSSL, IRPJ, IRPJ base and
\* surtax base.
C8_FatoresCompra ==
    (EhCompra /\ FluxoConstruido) =>
        \A mes \in 1..num_parcelas :
            IF mes >= 4 /\ (mes - 1) % 3 = 0
              THEN IF mes < num_parcelas
                     THEN /\ custos.Base_IRPJ[mes] = 32 * TresAnteriores(mes)
                          /\ custos.CSSL[mes] = -(32 * TresAnteriores(mes) * aliquota_cssl)
                     ELSE /\ custos.Base_IRPJ[mes] = 8 * TresAnteriores(mes)
                          /\ custos.CSSL[mes] = -(12 * TresAnteriores(mes) * aliquota_cssl)
              ELSE /\ custos.CSSL[mes] = 0
                   /\ custos.IRPJ[mes] = 0
                   /\ custos.Base_IRPJ[mes] = 0
                   /\ custos.Base_Adicional_IRPJ[mes] = 0

C8_Witness ==
    /\ EhCompra /\ pc = "dataframe" /\ num_parcelas = 7
    /\ TresAnteriores(4) > 0
    /\ custos.Base_IRPJ[4] = 32 * TresAnteriores(4)
    /\ custos.Base_IRPJ[7] = 8 * TresAnteriores(7)
    /\ custos.CSSL[7] = -(12 * TresAnteriores(7) * aliquota_cssl)
    /\ custos.IRPJ[5] = 0

C10_MaiorRaiz ==
    (pc \in {"fluxo_final", "dataframe", "retorno"}) =>
        /\ \E k \in 1..Len(raizes) : raizes[k] = pmt_otimizada
        /\ \A k \in 1..Len(raizes) : raizes[k] <= pmt_otimizada

\* two brackets, found from the high end of the range downwards
C10_Witness ==
    /\ pc = "fluxo_final" /\ Len(raizes) = 2
    /\ raizes[1] > raizes[2]
    /\ pmt_otimizada = raizes[1]

\* ----------------------------------------------------- report properties
\* C1 (as stated): the report table carries, in every period, the CSSL and
\* IRPJ bases and amounts and the PIS/COFINS amounts the builder computed for
\* the selected payment.
C1_RelatorioIgualAoBuilder ==
    pc = "retorno" =>
        \A mes \in 0..extra_index :
            /\ df_fluxos.PIS[mes] = custos.PIS[mes]
            /\ df_fluxos.COFINS[mes] = custos.COFINS[mes]
            /\ df_fluxos.CSSL[mes] = custos.CSSL[mes]
            /\ df_fluxos.IRPJ[mes] = custos.IRPJ[mes]
            /\ df_fluxos.Base_IRPJ[mes] = custos.Base_IRPJ[mes]
            /\ df_fluxos.Base_Adicional_IRPJ[mes] = custos.Base_Adicional_IRPJ[mes]
            /\ df_fluxos.Base_CSSL[mes] =
                  (IF mes = extra_index THEN BaseCsslFinal(fluxo_bruta)
                   ELSE IF EmImpostosMeses(mes) THEN BaseCssl(fluxo_bruta, mes)
                   ELSE 0)

\* C2 (as stated): with 1 or 2 installments, a simulation whose root search
\* found a root raises no exception, and the extra-period CSSL, IRPJ, IRPJ
\* base and surtax base are all zero.
C2_UmaOuDuasParcelas ==
    (num_parcelas \in {1, 2} /\ raizes # << >>) =>
        /\ erro = ""
        /\ FluxoConstruido =>
              /\ custos.CSSL[extra_index] = 0
              /\ custos.IRPJ[extra_index] = 0
              /\ custos.Base_IRPJ[extra_index] = 0
              /\ custos.Base_Adicional_IRPJ[extra_index] = 0

\* ------------------------------------------------------- app properties
\* C4 (as stated): with "Compra" selected on the page, the last 4 installment
\* months (num_parcelas - 3 .. num_parcelas) get zero recovery and factor 1 in
\* the period-0 sum, every other installment month gets installment times the
\* recovery rate; with "Aluguel" every installment month gets installment
\* times the recovery rate.
C4_RecuperacaoUltimasQuatro ==
    pc = "fim" =>
        \A mes \in 1..num_parcelas :
            IF tipo_operacao = "Compra" /\ mes >= num_parcelas - 3
              THEN /\ df_parcelas_recuperacao.Recuperacao_IR[mes] = 0
                   /\ df_parcelas_recuperacao.Fator[mes] = 100
              ELSE df_parcelas_recuperacao.Recuperacao_IR[mes]
                      = -df_parcelas_recuperacao.Parcela[mes] * RecuperacaoIrpj

\* ------------------------------------------------ error and range properties
\* the grid was evaluated and the loop over the brackets has ended
BuscaEncerrada ==
    \/ pc \in {"fluxo_final", "dataframe", "retorno", "tab2", "fim"}
    \/ pc = "erro" /\ f_vals # << >>

\* no two adjacent grid points have objective values of opposite sign
SemTrocaDeSinal ==
    \A k \in 1..(Len(f_vals) - 1) : ~(f_vals[k] * f_vals[k + 1] < 0)

\* nothing of what simular_emprestimo returns has been computed
SemResultado ==
    /\ pmt_otimizada = 0
    /\ fluxo_bruta = << >> /\ fluxo_liquida = << >> /\ custos = << >>
    /\ df_fluxos = << >>

\* C11: when no adjacent pair of grid points has opposite-signed objective
\* values (in particular when pmt_min = pmt_max), or when every refinement
\* failed, no root is collected and the call ends with the "no solution"
\* ValueError and no result.
C11_SemRaizLevantaErro ==
    BuscaEncerrada =>
        /\ SemTrocaDeSinal => raizes = << >>
        /\ pmt_min = pmt_max => raizes = << >>
        /\ raizes = << >> =>
              /\ pc = "erro"
              /\ erro = "ValueError: nenhuma solucao"
              /\ SemResultado

\* a degenerate range whose single payment misses the target
C11_Witness ==
    /\ pc = "erro" /\ erro = "ValueError: nenhuma solucao"
    /\ pmt_min = pmt_max /\ n_points = 5
    /\ \A k \in 1..Len(f_vals) : f_vals[k] # 0
    /\ SemResultado

\* a sign change on the grid whose refinement added no root
C11_WitnessNaoConvergiu ==
    /\ pc = "erro" /\ erro = "ValueError: nenhuma solucao"
    /\ ~SemTrocaDeSinal
    /\ SemResultado

\* the spellings of the two operation types among TipoOperacaoValues
TiposValidos == {"Aluguel", "Compra", "aluguel", "compra"}

\* C13: an operation type outside the two valid ones ends the call with the
\* "invalid operation type" ValueError at once, before any payment is
\* evaluated (no grid, no objective value, no extra index) and before any
\* schedule or table is built; a valid operation type never gets that error.
C13_TipoInvalido ==
    /\ (tipo_operacao \notin TiposValidos /\ pc # "inicio") =>
          /\ pc = "erro"
          /\ erro = "ValueError: tipo de operacao invalido"
          /\ extra_index = 0
          /\ pmt_grid = << >> /\ f_vals = << >> /\ raizes = << >>
          /\ SemResultado
    /\ tipo_operacao \in TiposValidos =>
          erro # "ValueError: tipo de operacao invalido"

C13_Witness ==
    /\ tipo_operacao = "venda"
    /\ pc = "erro" /\ erro = "ValueError: tipo de operacao invalido"
    /\ f_vals = << >>

\* C14 (as stated): the installments the "Visao Cliente" tab works with
\* (column Parcela, from which the recovery, the balance and the investor IRR
\* are derived) are the builder's gross flows of the final schedule at full
\* precision, not the values rounded up to the cent for display.
C14_ParcelaSemArredondamento ==
    pc = "fim" =>
        \A mes \in 1..num_parcelas :
            df_parcelas_recuperacao.Parcela[mes] = -fluxo_bruta[mes]

\* C15: a bound that is not overridden defaults, independently of the other,
\* to the level payment at the target rate (pmt_min; at rate 0 the principal
\* divided by the installment count) or to twice it (pmt_max), an overridden
\* bound is kept; and a payment that is selected lies strictly between the two
\* ends of the range used.
C15_FaixaPadraoERaizInterior ==
    /\ [][pc = "pmt" =>
            /\ pmt_min' = (IF pmt_min = None
                             THEN << valor_emprestado \div num_parcelas >>
                             ELSE pmt_min)
            /\ pmt_max' = (IF pmt_max = None
                             THEN << 2 * (valor_emprestado \div num_parcelas) >>
                             ELSE pmt_max)
            /\ pmt_grid'[1] = pmt_min'[1]
            /\ pmt_grid'[Len(pmt_grid')] = (IF n_points = 1 THEN pmt_min'[1] ELSE pmt_max'[1])
         ]_vars
    /\ [](pc \in {"fluxo_final", "dataframe", "retorno", "tab2", "fim"} =>
            /\ pmt_otimizada > Min2(pmt_min[1], pmt_max[1])
            /\ pmt_otimizada < Max2(pmt_min[1], pmt_max[1]))

\* only pmt_max overridden: the range is [theoretical, 3 * theoretical]
C15_Witness ==
    /\ pc = "fluxo_final"
    /\ pmt_min = << valor_emprestado \div num_parcelas >>
    /\ pmt_max = << 3 * (valor_emprestado \div num_parcelas) >>
    /\ pmt_otimizada > pmt_min[1] /\ pmt_otimizada < pmt_max[1]

\* no override: the range is [theoretical, 2 * theoretical]
C15_WitnessPadrao ==
    /\ pc = "fluxo_final"
    /\ pmt_min = << valor_emprestado \div num_parcelas >>
    /\ pmt_max = << 2 * (valor_emprestado \div num_parcelas) >>
    /\ pmt_otimizada > pmt_min[1] /\ pmt_otimizada < pmt_max[1]

C17_PisCofinsELiquido ==
    FluxoConstruido =>
        /\ fluxo_bruta[0] = -valor_emprestado
        /\ fluxo_liquida[0] = -valor_emprestado * 10000
        /\ \A mes \in 1..num_parcelas :
              /\ custos.PIS[mes] = -(fluxo_bruta[mes] * aliquota_pis)
              /\ custos.COFINS[mes] = -(fluxo_bruta[mes] * aliquota_cofins)
              /\ fluxo_liquida[mes] =
                    fluxo_bruta[mes] * 10000 + custos.PIS[mes] + custos.COFINS[mes]
                      + custos.CSSL[mes] + custos.IRPJ[mes]

\* a recognition month (4) and a month that is none (5), both with PIS/COFINS
C17_Witness ==
    /\ pc = "dataframe" /\ num_parcelas = 5
    /\ custos.PIS[4] < 0 /\ custos.COFINS[4] < custos.PIS[4] /\ custos.IRPJ[4] < 0
    /\ custos.PIS[5] = custos.PIS[4] /\ custos.IRPJ[5] = 0
    /\ fluxo_liquida[4] < fluxo_liquida[5]

\* the CSSL base the builder takes at a recognition month or at the extra
\* period, times 100
BaseCsslDoMes(mes) ==
    IF mes = extra_index
      THEN IF num_parcelas >= 3
             THEN (IF EhAluguel THEN 32 ELSE 12) * TresAnteriores(mes)
             ELSE 0
      ELSE (IF EhAluguel \/ mes < num_parcelas THEN 32 ELSE 12) * TresAnteriores(mes)

\* C18: at every recognition month and at the extra period, the surtax base
\* is max(0, IRPJ base - limite_isencao_irpj), zero when the base equals the
\* limit and never negative; the IRPJ cost is -(IRPJ base * aliquota_irpj +
\* surtax base * aliquota_adicional_irpj) and the CSSL cost is -(CSSL base *
\* aliquota_cssl).
C18_AdicionalECustos ==
    FluxoConstruido =>
        \A mes \in { p \in 4..num_parcelas : (p - 1) % 3 = 0 } \cup {extra_index} :
            /\ custos.Base_Adicional_IRPJ[mes] =
                  Max2(0, custos.Base_IRPJ[mes] - limite_isencao_irpj * 100)
            /\ custos.Base_Adicional_IRPJ[mes] >= 0
            /\ custos.Base_IRPJ[mes] = limite_isencao_irpj * 100 =>
                  custos.Base_Adicional_IRPJ[mes] = 0
            /\ custos.IRPJ[mes] =
                  -(custos.Base_IRPJ[mes] * aliquota_irpj
                      + custos.Base_Adicional_IRPJ[mes] * aliquota_adicional_irpj)
            /\ custos.CSSL[mes] = -(BaseCsslDoMes(mes) * aliquota_cssl)

\* a schedule with a base exactly at the limit
C18_Witness ==
    /\ pc = "dataframe" /\ num_parcelas >= 4
    /\ custos.Base_IRPJ[4] = limite_isencao_irpj * 100
    /\ custos.Base_Adicional_IRPJ[4] = 0
    /\ custos.IRPJ[4] = -(custos.Base_IRPJ[4] * aliquota_irpj)
    /\ custos.IRPJ[4] < 0 /\ custos.CSSL[4] < 0

\* a schedule with a base above the limit
C18_WitnessAcima ==
    /\ pc = "dataframe" /\ num_parcelas >= 4
    /\ custos.Base_Adicional_IRPJ[4] > 0
    /\ custos.IRPJ[4] < -(custos.Base_IRPJ[4] * aliquota_irpj)

\* a schedule with a base below the limit
C18_WitnessAbaixo ==
    /\ pc = "dataframe" /\ num_parcelas >= 4
    /\ custos.Base_IRPJ[4] > 0
    /\ custos.Base_IRPJ[4] < limite_isencao_irpj * 100
    /\ custos.Base_Adicional_IRPJ[4] = 0

\* b to the power e
RECURSIVE Potencia(_, _)
Potencia(b, e) == IF e = 0 THEN 1 ELSE b * Potencia(b, e - 1)

\* C19: the gross flow of installment month p is the payment escalated by
\* (1 + inflacao_anual) once for each month q in 2..p with (q - 1) mod 12 = 0,
\* that is payment * (1 + inflacao_anual)^floor((p - 1) / 12): the payment
\* itself through month 12, the first escalation at month 13, and the same
\* flow within each block of 12 months.
C19_ReajusteAnual ==
    FluxoConstruido =>
        \A p \in 1..num_parcelas :
            /\ fluxo_bruta[p] =
                  pmt_otimizada * Potencia(1 + inflacao_anual, (p - 1) \div 12)
            /\ fluxo_bruta[p] =
                  pmt_otimizada
                    * Potencia(1 + inflacao_anual,
                               Cardinality({ q \in 2..p : (q - 1) % 12 = 0 }))
            /\ p <= 12 => fluxo_bruta[p] = pmt_otimizada
            /\ (p > 1 /\ (p - 1) % 12 # 0) => fluxo_bruta[p] = fluxo_bruta[p - 1]

C19_Witness ==
    /\ pc = "dataframe" /\ num_parcelas = 14 /\ inflacao_anual = 1
    /\ pmt_otimizada > 0
    /\ fluxo_bruta[1] = pmt_otimizada /\ fluxo_bruta[12] = pmt_otimizada
    /\ fluxo_bruta[13] = 2 * pmt_otimizada /\ fluxo_bruta[14] = 2 * pmt_otimizada

\* ------------------------------------------------- objective properties
\* C20: at every grid payment whose net flows have no IRR (nan) the objective
\* is exactly -1 - tir_desejada, a negative number and not the 0 - tir_desejada
\* of a zero IRR, and the evaluation raises nothing; at every other grid
\* payment it is the net IRR minus tir_desejada (held as its sign).
C20_SentinelaNaN ==
    (pc \in {"brackets", "fluxo_final", "dataframe"}) =>
        /\ pc = "brackets" => erro = ""
        /\ \A k \in 1..Len(pmt_grid) :
              LET liq == CalcularFluxosComImpostos(pmt_grid[k]).fluxo_liquida
              IN  IF IrrNaN(liq)
                    THEN /\ f_vals[k] = -1 - tir_desejada
                         /\ f_vals[k] < 0
                         /\ f_vals[k] # 0 - tir_desejada
                    ELSE f_vals[k] = Sinal(Soma(liq, 0, extra_index))

\* a grid that starts at payment 0, where the net flows have no IRR, and a
\* root found further up
C20_Witness ==
    /\ pc = "fluxo_final" /\ erro = ""
    /\ pmt_grid[1] = 0
    /\ IrrNaN(CalcularFluxosComImpostos(0).fluxo_liquida)
    /\ f_vals[1] = -1
    /\ pmt_otimizada > 0

\* ------------------------------------------------- accrual windows
\* the months at which a CSSL/IRPJ base is taken: the recognition months and
\* the extra period
MesesDeApuracao ==
    { impostos_meses[k] : k \in 1..Len(impostos_meses) } \cup {extra_index}

\* the installment months whose gross flow enters the base taken at month
\* mes: fluxo_bruta[mes - 3: mes]
JanelaDeApuracao(mes) ==
    { p \in 1..num_parcelas : p >= mes - 3 /\ p < mes }

\* C21 (as stated): for both operation types and num_parcelas >= 3, the
\* windows of the recognition months and of the extra period cover every
\* installment month 1..num_parcelas exactly once.
C21_JanelasCobremUmaVez ==
    (pc = "pmt" /\ num_parcelas >= 3) =>
        \A p \in 1..num_parcelas :
            Cardinality({ mes \in MesesDeApuracao : p \in JanelaDeApuracao(mes) }) = 1

\* ------------------------------------------------- zeros on the grid
\* some grid payment meets the target rate exactly
ZeroNaGrade == \E k \in 1..Len(f_vals) : f_vals[k] = 0

\* C22: a pair of adjacent grid points one of which has an objective of
\* exactly zero is not bracketed and adds no root; so when the target is met
\* exactly at grid points and no adjacent pair has strictly opposite signs
\* (pmt_min = pmt_max at the solution included), the call ends with the "no
\* solution" ValueError and no result.
C22_ZeroNaGradeNaoEhRaiz ==
    /\ [][(pc = "brackets" /\ i < Len(pmt_grid) - 1
             /\ (f_vals[i + 1] = 0 \/ f_vals[i + 2] = 0)) => raizes' = raizes]_vars
    /\ []((BuscaEncerrada /\ ZeroNaGrade /\ SemTrocaDeSinal) =>
            /\ pc = "erro"
            /\ erro = "ValueError: nenhuma solucao"
            /\ raizes = << >>
            /\ SemResultado)

\* the range [0, 2 * theoretical]: the objective is negative below the
\* theoretical payment, zero at it (the middle grid point) and positive above
C22_Witness ==
    /\ pc = "erro" /\ erro = "ValueError: nenhuma solucao"
    /\ f_vals = << -1, -1, 0, 1, 1 >>
    /\ pmt_grid[3] * num_parcelas = valor_emprestado
    /\ FuncaoGoalSeekImpostos(pmt_grid[3]) = 0
    /\ SemResultado

\* pmt_min = pmt_max exactly at the solution
C22_WitnessDegenerado ==
    /\ pc = "erro" /\ erro = "ValueError: nenhuma solucao"
    /\ pmt_min = pmt_max /\ n_points = 5
    /\ \A k \in 1..Len(f_vals) : f_vals[k] = 0
    /\ SemResultado
====
